---------------------------- MODULE Spec2Model ----------------------------
(***************************************************************************)
(* Model of the Vulkan bootstrap of Hivini/graphics-vulkan                 *)
(* (class FirstVulkanExample, latest revision src/unnamed/part_000):       *)
(* physical-device selection, queue-family resolution, swapchain           *)
(* negotiation, logical-device creation and teardown.                      *)
(*                                                                         *)
(* Two specifications are given.                                           *)
(*   Spec    the whole run of main(): initWindow, the steps of initVulkan, *)
(*           mainLoop, cleanup and the try/catch of main.                  *)
(*   SpecFn  single calls of the pure helper functions on inputs drawn     *)
(*           from bounded sets.                                            *)
(*                                                                         *)
(* uint32_t is modelled as an unsigned integer of reduced width: the       *)
(* values 0..UintMax, arithmetic modulo UintMax + 1, UINT32_MAX = UintMax. *)
(***************************************************************************)
EXTENDS Integers, Sequences, FiniteSets, TLC

VARIABLES
    pc,          \* position of the process: the next function main() runs
    build,       \* compile-time configuration (NDEBUG or not)
    devices,     \* the physical devices of the machine, in backend order
    app,         \* the fields of the FirstVulkanExample object
    locals,      \* locals of the init steps that later checks refer to
    calls,       \* backend calls issued so far, in program order
    steps,       \* bootstrap steps run so far, each with its outcome
    exception,   \* the exception in flight or caught ("none" if none)
    exitStatus,  \* "running", "success" (return 0), "failure", "crashed"
    call,        \* SpecFn: the function called and its argument
    ret          \* SpecFn: its return value

vars == <<pc, build, devices, app, locals, calls, steps, exception,
          exitStatus, call, ret>>

---------------------------------------------------------------------------
(* Bounds of the model *)

\* uint32_t values are 0..UintMax; UINT32_MAX is UintMax
UintMax == 3
\* longest queue-family list a device reports
MaxFamilies == 3
\* longest extension list a device reports
MaxExtensions == 2
\* most physical devices the backend enumerates
MaxDevices == 2
\* longest surface-format list handed to chooseSwapSurfaceFormat
MaxFormats == 2
\* longest present-mode list handed to chooseSwapPresentMode
MaxModes == 2

Uint == 0..UintMax
UINT32_MAX == UintMax
\* uint32_t addition
UAdd(a, b) == (a + b) % (UintMax + 1)

SeqsUpTo(S, n) == UNION {[1..k -> S] : k \in 0..n}

---------------------------------------------------------------------------
(* Values of the backend *)

VK_QUEUE_GRAPHICS_BIT == "VK_QUEUE_GRAPHICS_BIT"
VK_QUEUE_TRANSFER_BIT == "VK_QUEUE_TRANSFER_BIT"
VK_KHR_SWAPCHAIN_EXTENSION_NAME == "VK_KHR_swapchain"
VK_NULL_HANDLE == 0

\* const std::vector<const char *> deviceExtensions
deviceExtensions == <<VK_KHR_SWAPCHAIN_EXTENSION_NAME>>
\* const std::vector<const char *> validationLayers
validationLayers == <<"VK_LAYER_KHRONOS_validation">>

\* a VkQueueFamilyProperties entry together with the answer of
\* vkGetPhysicalDeviceSurfaceSupportKHR for that family and the surface
QueueFamilyKinds ==
    [queueFlags : {{VK_QUEUE_TRANSFER_BIT},
                   {VK_QUEUE_GRAPHICS_BIT, VK_QUEUE_TRANSFER_BIT}},
     presentSupport : BOOLEAN]

ExtensionNames == {VK_KHR_SWAPCHAIN_EXTENSION_NAME, "VK_KHR_maintenance1"}

PreferredFormat ==
    [format |-> "VK_FORMAT_B8G8R8_SRGB",
     colorSpace |-> "VK_COLOR_SPACE_SRGB_NONLINEAR_KHR"]
SurfaceFormats ==
    {PreferredFormat,
     [format |-> "VK_FORMAT_B8G8R8A8_SRGB",
      colorSpace |-> "VK_COLOR_SPACE_SRGB_NONLINEAR_KHR"],
     [format |-> "VK_FORMAT_B8G8R8_SRGB",
      colorSpace |-> "VK_COLOR_SPACE_DISPLAY_P3_NONLINEAR_EXT"]}

VK_PRESENT_MODE_IMMEDIATE_KHR == "VK_PRESENT_MODE_IMMEDIATE_KHR"
VK_PRESENT_MODE_MAILBOX_KHR == "VK_PRESENT_MODE_MAILBOX_KHR"
VK_PRESENT_MODE_FIFO_KHR == "VK_PRESENT_MODE_FIFO_KHR"
PresentModes ==
    {VK_PRESENT_MODE_IMMEDIATE_KHR, VK_PRESENT_MODE_MAILBOX_KHR,
     VK_PRESENT_MODE_FIFO_KHR}

---------------------------------------------------------------------------
(* struct QueueFamilyIndexes: std::optional<uint32_t> is a sequence of     *)
(* length 0 (no value) or 1 (the value).                                   *)

nullopt == <<>>
has_value(o) == Len(o) = 1
value(o) == o[1]

QueueFamilyIndexes == [graphicsFamily |-> nullopt, presentFamily |-> nullopt]

isComplete(indexes) ==
    has_value(indexes.graphicsFamily) /\ has_value(indexes.presentFamily)

(* One pass of the loop body of findQueueFamilies on family number i        *)
(* (counted from 0; the sequence is indexed from 1).                        *)
RECURSIVE qfScan(_, _, _)
\* mutant: an index already assigned is kept (strict first match)
qfScanKeepFirst(queueFamilies, i, indexes) ==
    IF i >= Len(queueFamilies) THEN indexes
    ELSE LET queueFamily == queueFamilies[i + 1]
             a == IF VK_QUEUE_GRAPHICS_BIT \in queueFamily.queueFlags
                     /\ ~has_value(indexes.graphicsFamily)
                  THEN [indexes EXCEPT !.graphicsFamily = <<i>>]
                  ELSE indexes
             b == IF queueFamily.presentSupport
                     /\ ~has_value(a.presentFamily)
                  THEN [a EXCEPT !.presentFamily = <<i>>]
                  ELSE a
         IN  IF isComplete(b) THEN b ELSE qfScan(queueFamilies, i + 1, b)

qfScan(queueFamilies, i, indexes) ==
    IF i >= Len(queueFamilies) THEN indexes
    ELSE LET queueFamily == queueFamilies[i + 1]
             a == IF VK_QUEUE_GRAPHICS_BIT \in queueFamily.queueFlags
                  THEN [indexes EXCEPT !.graphicsFamily = <<i>>]
                  ELSE indexes
             b == IF queueFamily.presentSupport
                  THEN [a EXCEPT !.presentFamily = <<i>>]
                  ELSE a
         IN  IF isComplete(b) THEN b ELSE qfScan(queueFamilies, i + 1, b)

\* findQueueFamilies(device): device.queueFamilies is what the backend
\* reports for the device and the surface
findQueueFamilies(device) == qfScan(device.queueFamilies, 0, QueueFamilyIndexes)

---------------------------------------------------------------------------
(* Device suitability *)

\* the loop of checkDeviceExtensionSupport: erase every available name
RECURSIVE eraseAll(_, _)
eraseAll(requiredExtensions, availableExtensions) ==
    IF availableExtensions = <<>> THEN requiredExtensions
    ELSE eraseAll(requiredExtensions \ {Head(availableExtensions)},
                  Tail(availableExtensions))

\* mutant: only the number of available extensions is compared
checkDeviceExtensionSupportByCount(device) ==
    Len(device.extensions) >= Len(deviceExtensions)

checkDeviceExtensionSupport(device) ==
    LET requiredExtensions ==
            {deviceExtensions[k] : k \in 1..Len(deviceExtensions)}
    IN  eraseAll(requiredExtensions, device.extensions) = {}

\* querySwapChainSupport(device): the capabilities are the backend's answer
\* at the time of the call, the two lists are the device's
querySwapChainSupport(device, capabilities) ==
    [capabilities |-> capabilities,
     formats |-> device.formats,
     presentModes |-> device.presentModes]

Extent(w, h) == [width |-> w, height |-> h]

\* the capabilities answered during the suitability probe: isDeviceSuitable
\* reads only the two lists
ProbeCapabilities ==
    [minImageCount |-> 1, maxImageCount |-> 0,
     currentExtent |-> Extent(UINT32_MAX, UINT32_MAX),
     minImageExtent |-> Extent(1, 1),
     maxImageExtent |-> Extent(UINT32_MAX, UINT32_MAX)]

\* mutant: the completeness of the indices is not part of the verdict
isDeviceSuitableAnyIndices(device) ==
    LET extensionsSupported == checkDeviceExtensionSupport(device)
        swapChainAdequate ==
            IF extensionsSupported
            THEN LET swapChainSupport ==
                         querySwapChainSupport(device, ProbeCapabilities)
                 IN  swapChainSupport.formats # <<>>
                     /\ swapChainSupport.presentModes # <<>>
            ELSE FALSE
    IN  extensionsSupported /\ swapChainAdequate

isDeviceSuitable(device) ==
    LET indices == findQueueFamilies(device)
        extensionsSupported == checkDeviceExtensionSupport(device)
        swapChainAdequate ==
            IF extensionsSupported
            THEN LET swapChainSupport ==
                         querySwapChainSupport(device, ProbeCapabilities)
                 IN  swapChainSupport.formats # <<>>
                     /\ swapChainSupport.presentModes # <<>>
            ELSE FALSE
    IN  isComplete(indices) /\ extensionsSupported /\ swapChainAdequate

---------------------------------------------------------------------------
(* Swapchain negotiation *)

\* the value read by availableFormats[0] on an empty vector
Indeterminate == [format |-> "indeterminate", colorSpace |-> "indeterminate"]

RECURSIVE firstPreferred(_)
\* mutant: the color space is not compared
firstPreferredFormatOnly(availableFormats) ==
    IF availableFormats = <<>> THEN <<>>
    ELSE LET availableFormat == Head(availableFormats)
         IN  IF availableFormat.format = "VK_FORMAT_B8G8R8_SRGB"
             THEN <<availableFormat>>
             ELSE firstPreferred(Tail(availableFormats))

firstPreferred(availableFormats) ==
    IF availableFormats = <<>> THEN <<>>
    ELSE LET availableFormat == Head(availableFormats)
         IN  IF availableFormat.format = "VK_FORMAT_B8G8R8_SRGB"
                /\ availableFormat.colorSpace
                     = "VK_COLOR_SPACE_SRGB_NONLINEAR_KHR"
             THEN <<availableFormat>>
             ELSE firstPreferred(Tail(availableFormats))

chooseSwapSurfaceFormat(availableFormats) ==
    LET found == firstPreferred(availableFormats)
    IN  IF found # <<>> THEN found[1]
        ELSE IF availableFormats # <<>> THEN availableFormats[1]
        ELSE Indeterminate

RECURSIVE chooseSwapPresentMode(_)
\* mutant: only the first supported mode is looked at
chooseSwapPresentModeFirstOnly(availablePresentModes) ==
    IF availablePresentModes # <<>>
       /\ Head(availablePresentModes) = VK_PRESENT_MODE_MAILBOX_KHR
    THEN Head(availablePresentModes)
    ELSE VK_PRESENT_MODE_FIFO_KHR

chooseSwapPresentMode(availablePresentModes) ==
    IF availablePresentModes = <<>> THEN VK_PRESENT_MODE_FIFO_KHR
    ELSE IF Head(availablePresentModes) = VK_PRESENT_MODE_MAILBOX_KHR
         THEN Head(availablePresentModes)
         ELSE chooseSwapPresentMode(Tail(availablePresentModes))

\* std::clamp(v, lo, hi)
clamp(v, lo, hi) == IF v < lo THEN lo ELSE IF hi < v THEN hi ELSE v

\* static_cast<uint32_t>(int)
toUint32(n) == n % (UintMax + 1)

\* mutant: the height is clamped with the bounds of the width
chooseSwapExtentWidthBounds(capabilities, framebuffer) ==
    IF capabilities.currentExtent.width # UINT32_MAX
    THEN capabilities.currentExtent
    ELSE Extent(clamp(toUint32(framebuffer.width),
                      capabilities.minImageExtent.width,
                      capabilities.maxImageExtent.width),
                clamp(toUint32(framebuffer.height),
                      capabilities.minImageExtent.width,
                      capabilities.maxImageExtent.width))

\* framebuffer is the answer of glfwGetFramebufferSize
chooseSwapExtent(capabilities, framebuffer) ==
    IF capabilities.currentExtent.width # UINT32_MAX
    THEN capabilities.currentExtent
    ELSE LET actualExtent == Extent(toUint32(framebuffer.width),
                                    toUint32(framebuffer.height))
         IN  Extent(clamp(actualExtent.width,
                          capabilities.minImageExtent.width,
                          capabilities.maxImageExtent.width),
                    clamp(actualExtent.height,
                          capabilities.minImageExtent.height,
                          capabilities.maxImageExtent.height))

\* mutant: the maximum is applied even when it is 0 (unbounded)
imageCountNoZeroTest(capabilities) ==
    LET n == UAdd(capabilities.minImageCount, 1)
    IN  IF n > capabilities.maxImageCount
        THEN capabilities.maxImageCount
        ELSE n

\* mutant: the count is never lowered to the maximum
imageCountNoClamp(capabilities) == UAdd(capabilities.minImageCount, 1)

\* the image count of createSwapChain
imageCount(capabilities) ==
    LET n == UAdd(capabilities.minImageCount, 1)
    IN  IF capabilities.maxImageCount > 0 /\ n > capabilities.maxImageCount
        THEN capabilities.maxImageCount
        ELSE n

\* mutant: the two families are listed present first
imageSharingPresentFirst(indices) ==
    IF indices.graphicsFamily # indices.presentFamily
    THEN [imageSharingMode |-> "VK_SHARING_MODE_CONCURRENT",
          queueFamilyIndexCount |-> 2,
          pQueueFamilyIndices |-> <<value(indices.presentFamily),
                                    value(indices.graphicsFamily)>>]
    ELSE [imageSharingMode |-> "VK_SHARING_MODE_EXCLUSIVE",
          queueFamilyIndexCount |-> 0,
          pQueueFamilyIndices |-> <<>>]

\* the sharing fields of createSwapChain; indices is complete
imageSharing(indices) ==
    IF indices.graphicsFamily # indices.presentFamily
    THEN [imageSharingMode |-> "VK_SHARING_MODE_CONCURRENT",
          queueFamilyIndexCount |-> 2,
          pQueueFamilyIndices |-> <<value(indices.graphicsFamily),
                                    value(indices.presentFamily)>>]
    ELSE [imageSharingMode |-> "VK_SHARING_MODE_EXCLUSIVE",
          queueFamilyIndexCount |-> 0,
          pQueueFamilyIndices |-> <<>>]

\* VkSwapchainCreateInfoKHR as createSwapChain fills it in
swapchainCreateInfo(swapChainSupport, framebuffer, indices) ==
    LET surfaceFormat == chooseSwapSurfaceFormat(swapChainSupport.formats)
        sharing == imageSharing(indices)
    IN  [minImageCount |-> imageCount(swapChainSupport.capabilities),
         imageFormat |-> surfaceFormat.format,
         imageColorSpace |-> surfaceFormat.colorSpace,
         imageExtent |-> chooseSwapExtent(swapChainSupport.capabilities,
                                          framebuffer),
         presentMode |-> chooseSwapPresentMode(swapChainSupport.presentModes),
         imageSharingMode |-> sharing.imageSharingMode,
         queueFamilyIndexCount |-> sharing.queueFamilyIndexCount,
         pQueueFamilyIndices |-> sharing.pQueueFamilyIndices]

---------------------------------------------------------------------------
(* The machine: the physical devices the backend may enumerate *)

Fam(graphics, present) ==
    [queueFlags |-> IF graphics
                    THEN {VK_QUEUE_GRAPHICS_BIT, VK_QUEUE_TRANSFER_BIT}
                    ELSE {VK_QUEUE_TRANSFER_BIT},
     presentSupport |-> present]

Dev(queueFamilies, extensions, formats, presentModes) ==
    [queueFamilies |-> queueFamilies, extensions |-> extensions,
     formats |-> formats, presentModes |-> presentModes]

OtherFormat ==
    [format |-> "VK_FORMAT_B8G8R8A8_SRGB",
     colorSpace |-> "VK_COLOR_SPACE_SRGB_NONLINEAR_KHR"]

\* the device kinds of the whole-run specification: five that fail one of
\* the suitability conditions each, four suitable ones resolving to the
\* index pairs (0,0), (0,1), (1,0) and (1,1)
PipelineDevices ==
    {Dev(<<>>, <<VK_KHR_SWAPCHAIN_EXTENSION_NAME>>,
         <<PreferredFormat>>, <<VK_PRESENT_MODE_FIFO_KHR>>),
     Dev(<<Fam(TRUE, FALSE)>>, <<VK_KHR_SWAPCHAIN_EXTENSION_NAME>>,
         <<PreferredFormat>>, <<VK_PRESENT_MODE_FIFO_KHR>>),
     Dev(<<Fam(TRUE, TRUE)>>, <<"VK_KHR_maintenance1">>,
         <<PreferredFormat>>, <<VK_PRESENT_MODE_FIFO_KHR>>),
     Dev(<<Fam(TRUE, TRUE)>>, <<VK_KHR_SWAPCHAIN_EXTENSION_NAME>>,
         <<>>, <<VK_PRESENT_MODE_FIFO_KHR>>),
     Dev(<<Fam(TRUE, TRUE)>>, <<VK_KHR_SWAPCHAIN_EXTENSION_NAME>>,
         <<PreferredFormat>>, <<>>),
     Dev(<<Fam(TRUE, TRUE)>>,
         <<"VK_KHR_maintenance1", VK_KHR_SWAPCHAIN_EXTENSION_NAME>>,
         <<OtherFormat, PreferredFormat>>,
         <<VK_PRESENT_MODE_FIFO_KHR, VK_PRESENT_MODE_MAILBOX_KHR>>),
     Dev(<<Fam(TRUE, FALSE), Fam(FALSE, TRUE)>>,
         <<VK_KHR_SWAPCHAIN_EXTENSION_NAME>>,
         <<OtherFormat>>, <<VK_PRESENT_MODE_FIFO_KHR>>),
     Dev(<<Fam(FALSE, TRUE), Fam(TRUE, FALSE)>>,
         <<VK_KHR_SWAPCHAIN_EXTENSION_NAME>>,
         <<PreferredFormat>>, <<VK_PRESENT_MODE_IMMEDIATE_KHR>>),
     Dev(<<Fam(TRUE, FALSE), Fam(TRUE, TRUE)>>,
         <<VK_KHR_SWAPCHAIN_EXTENSION_NAME>>,
         <<PreferredFormat>>, <<VK_PRESENT_MODE_MAILBOX_KHR>>)}

DeviceLists == SeqsUpTo(PipelineDevices, MaxDevices)

\* surface capabilities a backend answers: at least one image, and a
\* maximum that is 0 (no limit) or not below the minimum
ImageCounts ==
    {c \in [minImageCount : 1..UintMax, maxImageCount : Uint] :
        c.maxImageCount = 0 \/ c.maxImageCount >= c.minImageCount}

ExtentCases ==
    {[currentExtent |-> Extent(UINT32_MAX, UINT32_MAX),
      minImageExtent |-> Extent(1, 1), maxImageExtent |-> Extent(2, 2)],
     [currentExtent |-> Extent(2, 1),
      minImageExtent |-> Extent(1, 1), maxImageExtent |-> Extent(2, 2)]}

SurfaceCapabilities ==
    {[minImageCount |-> c.minImageCount, maxImageCount |-> c.maxImageCount,
      currentExtent |-> e.currentExtent,
      minImageExtent |-> e.minImageExtent,
      maxImageExtent |-> e.maxImageExtent] :
        c \in ImageCounts, e \in ExtentCases}

\* answers of glfwGetFramebufferSize
FramebufferSizes == {Extent(0, 0), Extent(UintMax, 1)}

\* instance layers the system may have installed
LayerLists ==
    {<<>>, <<"VK_LAYER_LUNARG_api_dump">>,
     <<"VK_LAYER_LUNARG_api_dump", "VK_LAYER_KHRONOS_validation">>}

---------------------------------------------------------------------------
(* The object and the run *)

\* a member or local that was never assigned
uninit == "uninit"

\* what a backend call can do: it succeeds or it rejects the request, and
\* when it is handed a handle that was never initialized it may also end
\* the process
BackendResults(handle) ==
    IF handle = uninit
    THEN {"VK_SUCCESS", "VK_ERROR", "crash"}
    ELSE {"VK_SUCCESS", "VK_ERROR"}

BackendCall(fn, pd, dev) == [fn |-> fn, pd |-> pd, dev |-> dev]
Step(name, outcome) == [step |-> name, outcome |-> outcome]

\* the members of FirstVulkanExample after construction: only
\* physicalDevice has an initializer
FirstVulkanExample ==
    [window |-> uninit, instance |-> uninit,
     physicalDevice |-> VK_NULL_HANDLE, device |-> uninit,
     graphicsQueue |-> <<>>, surface |-> uninit, presentQueue |-> <<>>,
     swapChain |-> uninit, swapChainImages |-> 0,
     swapChainImageFormat |-> uninit, swapChainExtent |-> <<>>]

NoLocals ==
    [enumerated |-> <<>>, picked |-> FALSE, swapChainSupport |-> <<>>,
     indices |-> <<>>, createInfo |-> <<>>, queueCreateInfos |-> <<>>,
     indexes |-> <<>>]

Init ==
    /\ pc = "initWindow"
    /\ build \in [enableValidationLayers : BOOLEAN]
    /\ devices \in DeviceLists
    /\ app = FirstVulkanExample
    /\ locals = NoLocals
    /\ calls = <<>>
    /\ steps = <<>>
    /\ exception = "none"
    /\ exitStatus = "running"
    /\ call = [fn |-> "none"]
    /\ ret = <<>>

\* where control goes after a step, by the step's outcome
After(outcome, next) ==
    IF outcome = "ok" THEN next
    ELSE IF outcome = "crashed" THEN "exit"
    ELSE "catch"

StatusAfter(outcome) == IF outcome = "crashed" THEN "crashed" ELSE "running"

initWindow ==
    /\ pc = "initWindow"
    /\ pc' = "initVulkan"
    /\ app' = [app EXCEPT !.window = "GLFWwindow"]
    /\ calls' = calls \o <<BackendCall("glfwInit", 0, "n/a"),
                          BackendCall("glfwCreateWindow", 0, "n/a")>>
    /\ UNCHANGED <<build, devices, locals, steps, exception, exitStatus,
                   call, ret>>

RECURSIVE checkValidationLayerSupportFrom(_, _)
checkValidationLayerSupportFrom(layerNames, availableLayers) ==
    IF layerNames = <<>> THEN TRUE
    ELSE IF \E k \in 1..Len(availableLayers) :
                availableLayers[k] = Head(layerNames)
         THEN checkValidationLayerSupportFrom(Tail(layerNames),
                                              availableLayers)
         ELSE FALSE

checkValidationLayerSupport(availableLayers) ==
    checkValidationLayerSupportFrom(validationLayers, availableLayers)

\* the first statement of initVulkan
initVulkan ==
    /\ pc = "initVulkan"
    /\ \E availableLayers \in LayerLists :
         LET checked == build.enableValidationLayers
             failed == checked /\ ~checkValidationLayerSupport(availableLayers)
             outcome == IF failed THEN "failed" ELSE "ok"
         IN  /\ pc' = After(outcome, "createVulkanInstance")
             /\ exception' =
                  IF failed
                  THEN "Validation layers requested are not available with this system!"
                  ELSE exception
             /\ calls' =
                  IF checked
                  THEN Append(calls,
                         BackendCall("vkEnumerateInstanceLayerProperties",
                                     0, "n/a"))
                  ELSE calls
             /\ steps' = Append(steps, Step("checkValidationLayerSupport",
                                            outcome))
    /\ UNCHANGED <<build, devices, app, locals, exitStatus, call, ret>>

createVulkanInstance ==
    /\ pc = "createVulkanInstance"
    /\ \E result \in {"VK_SUCCESS", "VK_ERROR"} :
         /\ app' = IF result = "VK_SUCCESS"
                   THEN [app EXCEPT !.instance = "VkInstance"]
                   ELSE app
         /\ steps' = Append(steps,
                       Step("createVulkanInstance",
                            IF result = "VK_SUCCESS" THEN "ok" ELSE "failed"))
    \* the VkResult is stored in a local and never read
    /\ pc' = "createSurface"
    /\ calls' = Append(calls, BackendCall("vkCreateInstance", 0, "n/a"))
    /\ UNCHANGED <<build, devices, locals, exception, exitStatus, call, ret>>

createSurface ==
    /\ pc = "createSurface"
    /\ \E result \in BackendResults(app.instance) :
         LET outcome == IF result = "VK_SUCCESS" THEN "ok"
                        ELSE IF result = "crash" THEN "crashed"
                        ELSE "failed"
         IN  /\ pc' = After(outcome, "pickPhysicalDevice")
             /\ exitStatus' = StatusAfter(outcome)
             /\ exception' = IF outcome = "failed"
                             THEN "Problem creating the surface"
                             ELSE exception
             /\ app' = IF outcome = "ok"
                       THEN [app EXCEPT !.surface = "VkSurfaceKHR"]
                       ELSE app
             /\ steps' = Append(steps, Step("createSurface", outcome))
    /\ calls' = Append(calls, BackendCall("glfwCreateWindowSurface", 0, "n/a"))
    /\ UNCHANGED <<build, devices, locals, call, ret>>

---------------------------------------------------------------------------
(* pickPhysicalDevice *)

\* the backend queries isDeviceSuitable(device) issues, in order; pd is the
\* device's handle
\* mutant: the presentation probe is made whatever the extension check said
isDeviceSuitableCallsAlwaysProbe(device, pd) ==
    <<BackendCall("vkGetPhysicalDeviceQueueFamilyProperties", pd, "n/a"),
      BackendCall("vkEnumerateDeviceExtensionProperties", pd, "n/a"),
      BackendCall("vkGetPhysicalDeviceSurfaceCapabilitiesKHR", pd, "n/a"),
      BackendCall("vkGetPhysicalDeviceSurfaceFormatsKHR", pd, "n/a"),
      BackendCall("vkGetPhysicalDeviceSurfacePresentModesKHR", pd, "n/a")>>

isDeviceSuitableCalls(device, pd) ==
    <<BackendCall("vkGetPhysicalDeviceQueueFamilyProperties", pd, "n/a"),
      BackendCall("vkEnumerateDeviceExtensionProperties", pd, "n/a")>>
    \o (IF checkDeviceExtensionSupport(device)
        THEN <<BackendCall("vkGetPhysicalDeviceSurfaceCapabilitiesKHR",
                           pd, "n/a"),
               BackendCall("vkGetPhysicalDeviceSurfaceFormatsKHR", pd, "n/a"),
               BackendCall("vkGetPhysicalDeviceSurfacePresentModesKHR",
                           pd, "n/a")>>
        ELSE <<>>)

(* The loop of pickPhysicalDevice from position i on: the handle of a      *)
(* device is its position in the enumeration, VK_NULL_HANDLE is 0.         *)
RECURSIVE pickLoop(_, _, _)
\* mutant: no break, the last suitable device wins
pickLoopNoBreak(enumerated, i, physicalDevice) ==
    IF i > Len(enumerated) THEN physicalDevice
    ELSE IF isDeviceSuitable(enumerated[i])
         THEN pickLoop(enumerated, i + 1, i)
         ELSE pickLoop(enumerated, i + 1, physicalDevice)

pickLoop(enumerated, i, physicalDevice) ==
    IF i > Len(enumerated) THEN physicalDevice
    ELSE IF isDeviceSuitable(enumerated[i])
         THEN i
         ELSE pickLoop(enumerated, i + 1, physicalDevice)

RECURSIVE pickLoopCalls(_, _)
pickLoopCalls(enumerated, i) ==
    IF i > Len(enumerated) THEN <<>>
    ELSE isDeviceSuitableCalls(enumerated[i], i)
         \o (IF isDeviceSuitable(enumerated[i]) THEN <<>>
             ELSE pickLoopCalls(enumerated, i + 1))

pickPhysicalDevice ==
    /\ pc = "pickPhysicalDevice"
    /\ \E result \in BackendResults(app.instance) :
         \* deviceCount starts at 0 and stays 0 when the query is rejected
         LET enumerated == IF result = "VK_SUCCESS" THEN devices ELSE <<>>
             physicalDevice == pickLoop(enumerated, 1, app.physicalDevice)
             outcome == IF result = "crash" THEN "crashed"
                        ELSE IF Len(enumerated) = 0 THEN "failed"
                        ELSE IF physicalDevice = VK_NULL_HANDLE THEN "failed"
                        ELSE "ok"
         IN  /\ pc' = After(outcome, "createSwapChain")
             /\ exitStatus' = StatusAfter(outcome)
             /\ exception' =
                  IF outcome # "failed" THEN exception
                  ELSE IF Len(enumerated) = 0
                       THEN "No physical devices capable of run vulkan!"
                       ELSE "No physical devices have the capabilities to run our program."
             /\ app' = IF outcome = "crashed" THEN app
                       ELSE [app EXCEPT !.physicalDevice = physicalDevice]
             /\ locals' = IF outcome = "crashed" THEN locals
                          ELSE [locals EXCEPT !.enumerated = enumerated,
                                              !.picked = TRUE]
             /\ calls' = Append(calls,
                           BackendCall("vkEnumeratePhysicalDevices", 0, "n/a"))
                         \o (IF outcome = "crashed" THEN <<>>
                             ELSE pickLoopCalls(enumerated, 1))
             /\ steps' = Append(steps, Step("pickPhysicalDevice", outcome))
    /\ UNCHANGED <<build, devices, call, ret>>

---------------------------------------------------------------------------
(* createSwapChain *)

createSwapChain ==
    /\ pc = "createSwapChain"
    /\ \E capabilities \in SurfaceCapabilities,
          framebuffer \in FramebufferSizes,
          result \in BackendResults(app.device) :
         LET physicalDevice == devices[app.physicalDevice]
             swapChainSupport ==
                 querySwapChainSupport(physicalDevice, capabilities)
             indices == findQueueFamilies(physicalDevice)
             \* value() of an empty optional throws std::bad_optional_access
             badAccess == ~isComplete(indices)
             createInfo ==
                 swapchainCreateInfo(swapChainSupport, framebuffer, indices)
             outcome == IF badAccess THEN "failed"
                        ELSE IF result = "VK_SUCCESS" THEN "ok"
                        ELSE IF result = "crash" THEN "crashed"
                        ELSE "failed"
         IN  /\ pc' = After(outcome, "createLogicalDevice")
             /\ exitStatus' = StatusAfter(outcome)
             /\ exception' =
                  IF outcome # "failed" THEN exception
                  ELSE IF badAccess THEN "bad optional access"
                  ELSE "failed to create swap chain!"
             /\ locals' =
                  [locals EXCEPT
                     !.swapChainSupport = <<swapChainSupport>>,
                     !.indices = <<indices>>,
                     !.createInfo =
                        IF badAccess THEN <<>> ELSE <<createInfo>>]
             /\ app' =
                  IF outcome = "ok"
                  THEN [app EXCEPT
                          !.swapChain = "VkSwapchainKHR",
                          !.swapChainImages = createInfo.minImageCount,
                          !.swapChainImageFormat = createInfo.imageFormat,
                          !.swapChainExtent = <<createInfo.imageExtent>>]
                  ELSE app
             /\ calls' =
                  calls
                  \o <<BackendCall("vkGetPhysicalDeviceSurfaceCapabilitiesKHR",
                                   app.physicalDevice, "n/a"),
                       BackendCall("vkGetPhysicalDeviceSurfaceFormatsKHR",
                                   app.physicalDevice, "n/a"),
                       BackendCall("vkGetPhysicalDeviceSurfacePresentModesKHR",
                                   app.physicalDevice, "n/a"),
                       BackendCall("vkGetPhysicalDeviceQueueFamilyProperties",
                                   app.physicalDevice, "n/a")>>
                  \o (IF badAccess THEN <<>>
                      ELSE <<BackendCall("vkCreateSwapchainKHR",
                                         app.physicalDevice, app.device)>>)
                  \o (IF outcome = "ok"
                      THEN <<BackendCall("vkGetSwapchainImagesKHR",
                                         app.physicalDevice, app.device)>>
                      ELSE <<>>)
             /\ steps' = Append(steps, Step("createSwapChain", outcome))
    /\ UNCHANGED <<build, devices, call, ret>>

---------------------------------------------------------------------------
(* createLogicalDevice *)

\* the elements of a std::set<uint32_t> in iteration (ascending) order
RECURSIVE ascending(_)
ascending(S) ==
    IF S = {} THEN <<>>
    ELSE LET m == CHOOSE x \in S : \A y \in S : x <= y
         IN  <<m>> \o ascending(S \ {m})

\* mutant: a vector in place of the set, one request per role
queueCreateInfosOfPerRole(indexes) ==
    LET order == <<value(indexes.graphicsFamily),
                   value(indexes.presentFamily)>>
    IN  [k \in 1..Len(order) |->
            [queueFamilyIndex |-> order[k], queueCount |-> 1,
             queuePriority |-> "1.0f"]]

queueCreateInfosOf(indexes) ==
    LET uniqueQueueFamilies == {value(indexes.graphicsFamily),
                                value(indexes.presentFamily)}
        order == ascending(uniqueQueueFamilies)
    IN  [k \in 1..Len(order) |->
            [queueFamilyIndex |-> order[k], queueCount |-> 1,
             queuePriority |-> "1.0f"]]

\* void vkGetDeviceQueue(VkDevice device, uint32_t queueFamilyIndex,
\*                       uint32_t queueIndex, VkQueue *pQueue):
\* the queue the backend hands out for these arguments
vkGetDeviceQueue(device, queueFamilyIndex, queueIndex) ==
    [device |-> device, queueFamilyIndex |-> queueFamilyIndex,
     queueIndex |-> queueIndex]

\* the two queue retrievals at the end of createLogicalDevice
retrieveQueues(device, indexes) ==
    [graphicsQueue |->
        vkGetDeviceQueue(device, 0, value(indexes.graphicsFamily)),
     presentQueue |->
        vkGetDeviceQueue(device, 0, value(indexes.presentFamily))]

createLogicalDevice ==
    /\ pc = "createLogicalDevice"
    /\ \E result \in {"VK_SUCCESS", "VK_ERROR"} :
         LET physicalDevice == devices[app.physicalDevice]
             indexes == findQueueFamilies(physicalDevice)
             badAccess == ~isComplete(indexes)
             outcome == IF badAccess \/ result # "VK_SUCCESS"
                        THEN "failed" ELSE "ok"
             queues == retrieveQueues("VkDevice", indexes)
         IN  /\ pc' = After(outcome, "mainLoop")
             /\ exception' =
                  IF outcome = "ok" THEN exception
                  ELSE IF badAccess THEN "bad optional access"
                  ELSE "Failed to create logical device!"
             /\ locals' =
                  [locals EXCEPT
                     !.indexes = <<indexes>>,
                     !.queueCreateInfos =
                        IF badAccess THEN <<>>
                        ELSE <<queueCreateInfosOf(indexes)>>]
             /\ app' =
                  IF outcome = "ok"
                  THEN [app EXCEPT !.device = "VkDevice",
                                   !.graphicsQueue = <<queues.graphicsQueue>>,
                                   !.presentQueue = <<queues.presentQueue>>]
                  ELSE app
             /\ calls' =
                  calls
                  \o <<BackendCall("vkGetPhysicalDeviceQueueFamilyProperties",
                                   app.physicalDevice, "n/a")>>
                  \o (IF badAccess THEN <<>>
                      ELSE <<BackendCall("vkCreateDevice",
                                         app.physicalDevice, "n/a")>>)
                  \o (IF outcome = "ok"
                      THEN <<BackendCall("vkGetDeviceQueue",
                                         app.physicalDevice, "VkDevice"),
                             BackendCall("vkGetDeviceQueue",
                                         app.physicalDevice, "VkDevice")>>
                      ELSE <<>>)
             /\ steps' = Append(steps, Step("createLogicalDevice", outcome))
    /\ UNCHANGED <<build, devices, exitStatus, call, ret>>

---------------------------------------------------------------------------
(* mainLoop, cleanup and main *)

\* the loop polls events until the window is asked to close
mainLoop ==
    /\ pc = "mainLoop"
    /\ pc' = "cleanup"
    /\ calls' = Append(calls, BackendCall("glfwWindowShouldClose", 0, "n/a"))
    /\ UNCHANGED <<build, devices, app, locals, steps, exception, exitStatus,
                   call, ret>>

\* mutant: the logical device is destroyed before its swapchain
cleanupCallsDeviceFirst(object) ==
    <<BackendCall("glfwDestroyWindow", 0, "n/a"),
      BackendCall("glfwTerminate", 0, "n/a"),
      BackendCall("vkDestroyDevice", 0, object.device),
      BackendCall("vkDestroySwapchainKHR", 0, object.device),
      BackendCall("vkDestroySurfaceKHR", 0, "n/a"),
      BackendCall("vkDestroyInstance", 0, "n/a")>>

\* mutant: the surface is destroyed before the logical device
cleanupCallsSurfaceFirst(object) ==
    <<BackendCall("glfwDestroyWindow", 0, "n/a"),
      BackendCall("glfwTerminate", 0, "n/a"),
      BackendCall("vkDestroySwapchainKHR", 0, object.device),
      BackendCall("vkDestroySurfaceKHR", 0, "n/a"),
      BackendCall("vkDestroyDevice", 0, object.device),
      BackendCall("vkDestroyInstance", 0, "n/a")>>

\* the calls of cleanup() in program order
cleanupCalls(object) ==
    <<BackendCall("glfwDestroyWindow", 0, "n/a"),
      BackendCall("glfwTerminate", 0, "n/a"),
      BackendCall("vkDestroySwapchainKHR", 0, object.device),
      BackendCall("vkDestroyDevice", 0, object.device),
      BackendCall("vkDestroySurfaceKHR", 0, "n/a"),
      BackendCall("vkDestroyInstance", 0, "n/a")>>

\* how many of the calls of cleanup are issued when the first call that is
\* handed the instance ends the process
RECURSIVE UpToInstanceUse(_)
UpToInstanceUse(cs) ==
    IF cs = <<>> THEN <<>>
    ELSE IF Head(cs).fn \in {"vkDestroySurfaceKHR", "vkDestroyInstance"}
         THEN <<Head(cs)>>
         ELSE <<Head(cs)>> \o UpToInstanceUse(Tail(cs))

cleanup ==
    /\ pc = "cleanup"
    /\ \E result \in BackendResults(app.instance) \ {"VK_ERROR"} :
         /\ calls' = calls \o (IF result = "crash"
                               THEN UpToInstanceUse(cleanupCalls(app))
                               ELSE cleanupCalls(app))
         /\ pc' = IF result = "crash" THEN "exit" ELSE "return"
         /\ exitStatus' = IF result = "crash" THEN "crashed" ELSE exitStatus
    /\ UNCHANGED <<build, devices, app, locals, steps, exception, call, ret>>

\* main: run() returned
main_return ==
    /\ pc = "return"
    /\ pc' = "exit"
    /\ exitStatus' = "success"
    /\ UNCHANGED <<build, devices, app, locals, calls, steps, exception,
                   call, ret>>

\* main: the handler of std::exception
main_catch ==
    /\ pc = "catch"
    /\ pc' = "exit"
    /\ exitStatus' = "failure"
    /\ UNCHANGED <<build, devices, app, locals, calls, steps, exception,
                   call, ret>>

Next ==
    \/ initWindow
    \/ initVulkan
    \/ createVulkanInstance
    \/ createSurface
    \/ pickPhysicalDevice
    \/ createSwapChain
    \/ createLogicalDevice
    \/ mainLoop
    \/ cleanup
    \/ main_return
    \/ main_catch

Spec == Init /\ [][Next]_vars

---------------------------------------------------------------------------
(* SpecFn: one call of a helper function on an input from a bounded set *)

FamilyLists == SeqsUpTo(QueueFamilyKinds, MaxFamilies)
ExtensionLists == SeqsUpTo(ExtensionNames, MaxExtensions)

\* devices handed to isDeviceSuitable
SuitDevices ==
    {Dev(f, e, fm, pm) :
        f \in FamilyLists, e \in ExtensionLists,
        fm \in SeqsUpTo(SurfaceFormats, 1), pm \in SeqsUpTo(PresentModes, 1)}

\* extent ranges a surface reports: the smallest extent is not above the
\* largest
ExtentRanges ==
    {r \in [minImageExtent : {Extent(w, h) : w, h \in Uint},
            maxImageExtent : {Extent(w, h) : w, h \in Uint}] :
        /\ r.minImageExtent.width <= r.maxImageExtent.width
        /\ r.minImageExtent.height <= r.maxImageExtent.height}

\* capabilities handed to chooseSwapExtent: the current extent is the pair
\* of UINT32_MAX (the window decides) over every range, or a size below
\* UINT32_MAX, inside or outside the range 1..2
ExtentCapabilities ==
    {[minImageCount |-> 1, maxImageCount |-> 0,
      currentExtent |-> Extent(UINT32_MAX, UINT32_MAX),
      minImageExtent |-> r.minImageExtent,
      maxImageExtent |-> r.maxImageExtent] : r \in ExtentRanges}
    \cup {[minImageCount |-> 1, maxImageCount |-> 0,
           currentExtent |-> Extent(w, h),
           minImageExtent |-> Extent(1, 1),
           maxImageExtent |-> Extent(2, 2)] : w, h \in 0..(UintMax - 1)}

FormatLists == SeqsUpTo(SurfaceFormats, MaxFormats) \ {<<>>}
ModeLists ==
    SeqsUpTo(PresentModes \cup {"VK_PRESENT_MODE_FIFO_RELAXED_KHR"}, MaxModes)

FnCalls ==
    {[fn |-> "findQueueFamilies", device |-> Dev(f, <<>>, <<>>, <<>>)] :
        f \in FamilyLists}
    \cup {[fn |-> "isDeviceSuitable", device |-> d] : d \in SuitDevices}
    \cup {[fn |-> "chooseSwapExtent", capabilities |-> c, framebuffer |-> fb] :
             c \in ExtentCapabilities,
             fb \in {Extent(w, h) : w, h \in Uint}}
    \cup {[fn |-> "chooseSwapSurfaceFormat", availableFormats |-> l] :
             l \in FormatLists}
    \cup {[fn |-> "chooseSwapPresentMode", availablePresentModes |-> l] :
             l \in ModeLists}

InitFn ==
    /\ pc = "call"
    /\ call \in FnCalls
    /\ ret = <<>>
    /\ build = [enableValidationLayers |-> FALSE]
    /\ devices = <<>>
    /\ app = FirstVulkanExample
    /\ locals = NoLocals
    /\ calls = <<>>
    /\ steps = <<>>
    /\ exception = "none"
    /\ exitStatus = "running"

call_findQueueFamilies ==
    /\ pc = "call"
    /\ call.fn = "findQueueFamilies"
    /\ ret' = <<findQueueFamilies(call.device)>>
    /\ pc' = "returned"
    /\ UNCHANGED <<build, devices, app, locals, calls, steps, exception,
                   exitStatus, call>>

call_isDeviceSuitable ==
    /\ pc = "call"
    /\ call.fn = "isDeviceSuitable"
    /\ ret' = <<isDeviceSuitable(call.device)>>
    /\ pc' = "returned"
    /\ UNCHANGED <<build, devices, app, locals, calls, steps, exception,
                   exitStatus, call>>

call_chooseSwapExtent ==
    /\ pc = "call"
    /\ call.fn = "chooseSwapExtent"
    /\ ret' = <<chooseSwapExtent(call.capabilities, call.framebuffer)>>
    /\ pc' = "returned"
    /\ UNCHANGED <<build, devices, app, locals, calls, steps, exception,
                   exitStatus, call>>

call_chooseSwapSurfaceFormat ==
    /\ pc = "call"
    /\ call.fn = "chooseSwapSurfaceFormat"
    /\ ret' = <<chooseSwapSurfaceFormat(call.availableFormats)>>
    /\ pc' = "returned"
    /\ UNCHANGED <<build, devices, app, locals, calls, steps, exception,
                   exitStatus, call>>

call_chooseSwapPresentMode ==
    /\ pc = "call"
    /\ call.fn = "chooseSwapPresentMode"
    /\ ret' = <<chooseSwapPresentMode(call.availablePresentModes)>>
    /\ pc' = "returned"
    /\ UNCHANGED <<build, devices, app, locals, calls, steps, exception,
                   exitStatus, call>>

NextFn ==
    \/ call_findQueueFamilies
    \/ call_isDeviceSuitable
    \/ call_chooseSwapExtent
    \/ call_chooseSwapSurfaceFormat
    \/ call_chooseSwapPresentMode

SpecFn == InitFn /\ [][NextFn]_vars

---------------------------------------------------------------------------
(* Properties of findQueueFamilies (SpecFn) *)

Returned(fn) == pc = "returned" /\ call.fn = fn

\* indices (from 0) of the families of a list with a capability
GraphicsIdx(fams) ==
    {i \in 0..(Len(fams) - 1) : VK_QUEUE_GRAPHICS_BIT \in fams[i + 1].queueFlags}
PresentIdx(fams) ==
    {i \in 0..(Len(fams) - 1) : fams[i + 1].presentSupport}
Min(S) == CHOOSE x \in S : \A y \in S : x <= y
FirstOf(S) == IF S = {} THEN nullopt ELSE <<Min(S)>>

\* C1: findQueueFamilies returns as graphics index the smallest index of a
\* family with the graphics flag and as present index the smallest index of
\* a family that can present (absent only when there is no such family); a
\* later family never replaces an index assigned by an earlier one.
C1_FirstMatch ==
    Returned("findQueueFamilies") =>
        LET fams == call.device.queueFamilies
        IN  /\ ret[1].graphicsFamily = FirstOf(GraphicsIdx(fams))
            /\ ret[1].presentFamily = FirstOf(PresentIdx(fams))

\* C2 (as stated): whenever some family supports both graphics and
\* presentation, both returned indices are equal and name a family that
\* supports both.
C2_NoSplitWheneverDualExists ==
    Returned("findQueueFamilies") =>
        LET fams == call.device.queueFamilies
            dual == GraphicsIdx(fams) \cap PresentIdx(fams)
        IN  dual # {} =>
                /\ isComplete(ret[1])
                /\ ret[1].graphicsFamily = ret[1].presentFamily
                /\ value(ret[1].graphicsFamily) \in dual

\* the families before the first dual-capable family do not between them
\* offer both a graphics family and a present family, so the scan gets to it
ScanReachesFirstDual(fams) ==
    LET dual == GraphicsIdx(fams) \cap PresentIdx(fams)
    IN  /\ dual # {}
        /\ ~(/\ \E a \in GraphicsIdx(fams) : a < Min(dual)
             /\ \E b \in PresentIdx(fams) : b < Min(dual))

\* C2 (amended): if some family supports both roles and the families before
\* the first such family do not already supply both a graphics family and a
\* present family, both returned indices are the index of that first
\* dual-capable family.
C2_NoSplitWhenScanReachesDual ==
    Returned("findQueueFamilies") =>
        LET fams == call.device.queueFamilies
            dual == GraphicsIdx(fams) \cap PresentIdx(fams)
        IN  ScanReachesFirstDual(fams) =>
                /\ ret[1].graphicsFamily = <<Min(dual)>>
                /\ ret[1].presentFamily = <<Min(dual)>>

\* C2 witness: a graphics-only family precedes the first dual family and
\* both indices are that dual family's
C2_Witness ==
    /\ Returned("findQueueFamilies")
    /\ ScanReachesFirstDual(call.device.queueFamilies)
    /\ 0 \in GraphicsIdx(call.device.queueFamilies)
    /\ ret[1].graphicsFamily = <<1>>
    /\ ret[1].presentFamily = <<1>>

---------------------------------------------------------------------------
(* Properties of isDeviceSuitable (SpecFn) *)

Names(list) == {list[k] : k \in 1..Len(list)}

\* C4: isDeviceSuitable is true exactly when the resolved queue family
\* indices are complete, every required extension name is among the
\* device's extensions, and the format list and the present-mode list are
\* both nonempty.
C4_SuitableIff ==
    Returned("isDeviceSuitable") =>
        LET d == call.device
        IN  ret[1] <=>
              /\ isComplete(findQueueFamilies(d))
              /\ Names(deviceExtensions) \subseteq Names(d.extensions)
              /\ d.formats # <<>>
              /\ d.presentModes # <<>>

\* C4 witness: a device with complete queue families, formats and modes but
\* without the required extension is rejected
C4_Witness ==
    /\ Returned("isDeviceSuitable")
    /\ isComplete(findQueueFamilies(call.device))
    /\ call.device.formats # <<>>
    /\ call.device.presentModes # <<>>
    /\ VK_KHR_SWAPCHAIN_EXTENSION_NAME \notin Names(call.device.extensions)
    /\ call.device.extensions # <<>>
    /\ ret[1] = FALSE

---------------------------------------------------------------------------
(* Properties of the whole run (Spec) *)

\* the outcome recorded for a step that ran, "not run" otherwise
OutcomeOf(name) ==
    IF \E k \in 1..Len(steps) : steps[k].step = name
    THEN steps[CHOOSE k \in 1..Len(steps) : steps[k].step = name].outcome
    ELSE "not run"

\* positions in the call log of the calls of a backend function
At(fn) == {k \in 1..Len(calls) : calls[k].fn = fn}
\* every call of f comes before every call of g, and g is not called
\* without f having been called
Precedes(f, g) ==
    /\ \A j \in At(g) : \E i \in At(f) : i < j
    /\ \A i \in At(f), j \in At(g) : i < j

\* C3: after createLogicalDevice succeeds, graphicsQueue is queue 0 of the
\* resolved graphics family and presentQueue is queue 0 of the resolved
\* present family.
C3_QueuesOfResolvedFamilies ==
    OutcomeOf("createLogicalDevice") = "ok" =>
        /\ app.graphicsQueue[1].queueFamilyIndex
             = value(locals.indexes[1].graphicsFamily)
        /\ app.graphicsQueue[1].queueIndex = 0
        /\ app.presentQueue[1].queueFamilyIndex
             = value(locals.indexes[1].presentFamily)
        /\ app.presentQueue[1].queueIndex = 0

SuitableIdx(enumerated) ==
    {i \in 1..Len(enumerated) : isDeviceSuitable(enumerated[i])}

C5_Outcome ==
    locals.picked =>
        LET enumerated == locals.enumerated
        IN  /\ Len(enumerated) = 0 =>
                /\ OutcomeOf("pickPhysicalDevice") = "failed"
                /\ exception = "No physical devices capable of run vulkan!"
                /\ app.physicalDevice = VK_NULL_HANDLE
            /\ (Len(enumerated) > 0 /\ SuitableIdx(enumerated) = {}) =>
                /\ OutcomeOf("pickPhysicalDevice") = "failed"
                /\ exception =
                     "No physical devices have the capabilities to run our program."
                /\ app.physicalDevice = VK_NULL_HANDLE
            /\ SuitableIdx(enumerated) # {} =>
                /\ OutcomeOf("pickPhysicalDevice") = "ok"
                /\ app.physicalDevice = Min(SuitableIdx(enumerated))

\* C5: pickPhysicalDevice fails with "no devices" when none is enumerated,
\* with "no suitable device" when none of the enumerated devices is
\* suitable, and otherwise selects the first suitable device in enumeration
\* order; a selected physical device is never reassigned.
C5_PickFirstSuitable ==
    /\ []C5_Outcome
    /\ [][app.physicalDevice # VK_NULL_HANDLE
            => app'.physicalDevice = app.physicalDevice]_vars

\* C5 witness: the second enumerated device was selected, the first being
\* unsuitable, and the run went on to the end
C5_Witness ==
    /\ locals.picked
    /\ Len(locals.enumerated) = 2
    /\ app.physicalDevice = 2
    /\ pc = "exit"

\* C6: a bootstrap step that fails is the last step that runs: the failure
\* is in flight to main or main has ended the process with a nonzero status.
C6_FailureAborts ==
    \A k \in 1..Len(steps) :
        steps[k].outcome = "failed" =>
            /\ k = Len(steps)
            /\ pc \in {"catch", "exit"}
            /\ pc = "exit" => exitStatus = "failure"

\* C7: whenever cleanup has run, the swapchain was destroyed before the
\* logical device, the logical device before the surface and the surface
\* before the instance.
C7_TeardownOrder ==
    /\ Precedes("vkDestroySwapchainKHR", "vkDestroyDevice")
    /\ Precedes("vkDestroyDevice", "vkDestroySurfaceKHR")
    /\ Precedes("vkDestroySurfaceKHR", "vkDestroyInstance")
    /\ pc = "return" => At("vkDestroyInstance") # {}

\* C7 witness: cleanup has run to its end
C7_Witness ==
    /\ pc = "return"
    /\ At("vkDestroySwapchainKHR") # {}
    /\ At("vkDestroyInstance") # {}

DeviceCreated == OutcomeOf("createLogicalDevice") = "ok"

\* C8 (as stated): on every terminated run in which the logical device was
\* created it was destroyed exactly once, after the swapchain and the
\* surface and before the instance.
C8_DestroyedAfterSurface ==
    (pc = "exit" /\ DeviceCreated) =>
        /\ Cardinality(At("vkDestroyDevice")) = 1
        /\ Precedes("vkDestroySwapchainKHR", "vkDestroyDevice")
        /\ Precedes("vkDestroySurfaceKHR", "vkDestroyDevice")
        /\ \A i \in At("vkDestroyDevice"), j \in At("vkDestroyInstance") : i < j

\* C8 (amended): on every terminated run in which the logical device was
\* created it was destroyed exactly once, after the swapchain and before
\* the surface and the instance; no run ends in a fatal error after the
\* device was created.
C8_DestroyedOnceBeforeSurface ==
    (pc = "exit" /\ DeviceCreated) =>
        /\ Cardinality(At("vkDestroyDevice")) = 1
        /\ Precedes("vkDestroySwapchainKHR", "vkDestroyDevice")
        /\ \A i \in At("vkDestroyDevice"), j \in At("vkDestroySurfaceKHR") : i < j
        /\ \A i \in At("vkDestroyDevice"), j \in At("vkDestroyInstance") : i < j
        /\ exitStatus # "failure"

\* C8 witness: a run that created the device has returned from main
C8_Witness ==
    /\ pc = "exit"
    /\ exitStatus = "success"
    /\ DeviceCreated
    /\ At("vkDestroySurfaceKHR") # {}

\* the capabilities createSwapChain read and the image count it requested
Negotiated == Len(locals.createInfo) = 1
Caps == locals.swapChainSupport[1].capabilities
RequestedImageCount == locals.createInfo[1].minImageCount

\* C9 (as stated): when maxImageCount > 0 the requested image count lies
\* between minImageCount + 1 and maxImageCount.
C9_CountWithinMinPlusOneAndMax ==
    (Negotiated /\ Caps.maxImageCount > 0) =>
        /\ Caps.minImageCount + 1 <= RequestedImageCount
        /\ RequestedImageCount <= Caps.maxImageCount

\* C9 (amended): when maxImageCount > 0 the requested image count is at most
\* maxImageCount, and it is at least minImageCount + 1 whenever
\* minImageCount + 1 <= maxImageCount.
C9_CountAtMostMax ==
    (Negotiated /\ Caps.maxImageCount > 0) =>
        /\ RequestedImageCount <= Caps.maxImageCount
        /\ Caps.minImageCount + 1 <= Caps.maxImageCount
             => Caps.minImageCount + 1 <= RequestedImageCount

\* C9 witness: a bounded surface with room for one image above the minimum
C9_Witness ==
    /\ Negotiated
    /\ Caps.maxImageCount > 0
    /\ Caps.minImageCount + 1 <= Caps.maxImageCount
    /\ RequestedImageCount = Caps.minImageCount + 1

\* C10: in uint32_t arithmetic the requested image count is
\* minImageCount + 1 when maxImageCount is 0 or minImageCount + 1 is at most
\* maxImageCount, and maxImageCount otherwise.
C10_CountFormula ==
    Negotiated =>
        LET plusOne == UAdd(Caps.minImageCount, 1)
        IN  /\ (Caps.maxImageCount = 0 \/ plusOne <= Caps.maxImageCount)
                 => RequestedImageCount = plusOne
            /\ (Caps.maxImageCount > 0 /\ plusOne > Caps.maxImageCount)
                 => RequestedImageCount = Caps.maxImageCount

\* C10 witness: minImageCount = 2 and maxImageCount = 2 give 2
C10_Witness ==
    /\ Negotiated
    /\ Caps.minImageCount = 2
    /\ Caps.maxImageCount = 2
    /\ RequestedImageCount = 2

---------------------------------------------------------------------------
(* Properties of the swapchain helpers (SpecFn) *)

Within(v, lo, hi) == lo <= v /\ v <= hi
\* v brought into lo..hi
ClampedTo(r, v, lo, hi) ==
    /\ Within(r, lo, hi)
    /\ Within(v, lo, hi) => r = v
    /\ v < lo => r = lo
    /\ v > hi => r = hi

\* C11: chooseSwapExtent returns the current extent when that is a fixed
\* extent; when it is the UINT32_MAX pair it returns the framebuffer size
\* with the width clamped into the surface's width range and the height
\* into its height range, so the result lies within the range.
C11_ExtentChoice ==
    Returned("chooseSwapExtent") =>
        LET c == call.capabilities
            fb == call.framebuffer
        IN  IF c.currentExtent # Extent(UINT32_MAX, UINT32_MAX)
            THEN ret[1] = c.currentExtent
            ELSE /\ ClampedTo(ret[1].width, fb.width,
                              c.minImageExtent.width, c.maxImageExtent.width)
                 /\ ClampedTo(ret[1].height, fb.height,
                              c.minImageExtent.height, c.maxImageExtent.height)

\* C11 witness: the window decides, the framebuffer is wider than the
\* surface allows and its height is in range and differs from the widths
C11_Witness ==
    /\ Returned("chooseSwapExtent")
    /\ call.capabilities.currentExtent = Extent(UINT32_MAX, UINT32_MAX)
    /\ call.capabilities.minImageExtent = Extent(1, 1)
    /\ call.capabilities.maxImageExtent = Extent(2, 2)
    /\ call.framebuffer = Extent(3, 1)
    /\ ret[1] = Extent(2, 1)

IsPreferred(f) ==
    /\ f.format = "VK_FORMAT_B8G8R8_SRGB"
    /\ f.colorSpace = "VK_COLOR_SPACE_SRGB_NONLINEAR_KHR"

\* C14: on a nonempty list chooseSwapSurfaceFormat returns the first entry
\* that is B8G8R8 sRGB in the sRGB-nonlinear color space, the first entry of
\* the list when there is none, and always an entry of the list.
C14_FormatChoice ==
    Returned("chooseSwapSurfaceFormat") =>
        LET l == call.availableFormats
            hits == {k \in 1..Len(l) : IsPreferred(l[k])}
        IN  /\ hits # {} => ret[1] = l[Min(hits)]
            /\ hits = {} => ret[1] = l[1]
            /\ \E k \in 1..Len(l) : ret[1] = l[k]

\* C14 witness: the preferred entry is second, behind an entry with the
\* same pixel format in another color space
C14_Witness ==
    /\ Returned("chooseSwapSurfaceFormat")
    /\ Len(call.availableFormats) = 2
    /\ call.availableFormats[1].format = "VK_FORMAT_B8G8R8_SRGB"
    /\ ~IsPreferred(call.availableFormats[1])
    /\ IsPreferred(call.availableFormats[2])
    /\ ret[1] = call.availableFormats[2]

\* C15: chooseSwapPresentMode returns the mailbox mode exactly when it is in
\* the list, and the FIFO mode in every other case.
C15_ModeChoice ==
    Returned("chooseSwapPresentMode") =>
        LET l == call.availablePresentModes
            mailbox == \E k \in 1..Len(l) : l[k] = VK_PRESENT_MODE_MAILBOX_KHR
        IN  /\ ret[1] = VK_PRESENT_MODE_MAILBOX_KHR <=> mailbox
            /\ ~mailbox => ret[1] = VK_PRESENT_MODE_FIFO_KHR

\* C15 witness: the mailbox mode is second in the list and is chosen
C15_Witness ==
    /\ Returned("chooseSwapPresentMode")
    /\ Len(call.availablePresentModes) = 2
    /\ call.availablePresentModes[1] = VK_PRESENT_MODE_IMMEDIATE_KHR
    /\ call.availablePresentModes[2] = VK_PRESENT_MODE_MAILBOX_KHR
    /\ ret[1] = VK_PRESENT_MODE_MAILBOX_KHR

---------------------------------------------------------------------------
(* Properties of the run: swapchain configuration and queue requests *)

\* C12: the swapchain configuration uses concurrent sharing with exactly
\* the two families graphics, present (in this order) when the resolved
\* graphics and present indices differ, and exclusive sharing with no
\* listed family when they are equal.
C12_SharingMode ==
    Negotiated =>
        LET g == locals.indices[1].graphicsFamily[1]
            p == locals.indices[1].presentFamily[1]
            createInfo == locals.createInfo[1]
        IN  /\ g # p =>
                /\ createInfo.imageSharingMode = "VK_SHARING_MODE_CONCURRENT"
                /\ createInfo.queueFamilyIndexCount = 2
                /\ createInfo.pQueueFamilyIndices = <<g, p>>
            /\ g = p =>
                /\ createInfo.imageSharingMode = "VK_SHARING_MODE_EXCLUSIVE"
                /\ createInfo.queueFamilyIndexCount = 0
                /\ createInfo.pQueueFamilyIndices = <<>>

\* C12 witness: graphics resolved to family 1 and present to family 0, and
\* the configuration lists 1 before 0
C12_Witness ==
    /\ Negotiated
    /\ locals.indices[1].graphicsFamily = <<1>>
    /\ locals.indices[1].presentFamily = <<0>>
    /\ locals.createInfo[1].pQueueFamilyIndices = <<1, 0>>

\* C12 second case: both roles resolved to family 0
C12_ExclusiveReached ==
    /\ Negotiated
    /\ locals.indices[1].graphicsFamily = <<0>>
    /\ locals.indices[1].presentFamily = <<0>>
    /\ locals.createInfo[1].imageSharingMode = "VK_SHARING_MODE_EXCLUSIVE"

QueuesRequested == Len(locals.queueCreateInfos) = 1

\* C13: createLogicalDevice builds one queue-creation request per distinct
\* resolved family index: one when graphics and present coincide, two when
\* they differ, no index twice, each for one queue at priority 1.0.
C13_OneRequestPerFamily ==
    QueuesRequested =>
        LET g == locals.indexes[1].graphicsFamily[1]
            p == locals.indexes[1].presentFamily[1]
            queueCreateInfos == locals.queueCreateInfos[1]
            n == Len(queueCreateInfos)
        IN  /\ n = IF g = p THEN 1 ELSE 2
            /\ {queueCreateInfos[k].queueFamilyIndex : k \in 1..n} = {g, p}
            /\ \A j, k \in 1..n :
                 queueCreateInfos[j].queueFamilyIndex
                    = queueCreateInfos[k].queueFamilyIndex => j = k
            /\ \A k \in 1..n :
                 /\ queueCreateInfos[k].queueCount = 1
                 /\ queueCreateInfos[k].queuePriority = "1.0f"

\* C13 witness: both roles resolved to family 1 and one request was built
C13_Witness ==
    /\ QueuesRequested
    /\ locals.indexes[1].graphicsFamily = <<1>>
    /\ locals.indexes[1].presentFamily = <<1>>
    /\ Len(locals.queueCreateInfos[1]) = 1

\* C13 second case: the roles resolved to two families, two requests
C13_TwoReached ==
    /\ QueuesRequested
    /\ locals.indexes[1].graphicsFamily # locals.indexes[1].presentFamily
    /\ Len(locals.queueCreateInfos[1]) = 2

ProbeQueries ==
    {"vkGetPhysicalDeviceSurfaceCapabilitiesKHR",
     "vkGetPhysicalDeviceSurfaceFormatsKHR",
     "vkGetPhysicalDeviceSurfacePresentModesKHR"}

HasRequiredExtensions(device) ==
    \A e \in Names(deviceExtensions) : e \in Names(device.extensions)

\* C16: a presentation probe query is made for a device only after that
\* device's extension list was queried and holds every required extension;
\* a device lacking a required extension is never probed and never
\* selected.
C16_ProbeAfterExtensionCheck ==
    /\ \A j \in 1..Len(calls) :
         calls[j].fn \in ProbeQueries =>
            /\ HasRequiredExtensions(devices[calls[j].pd])
            /\ \E i \in 1..(j - 1) :
                 /\ calls[i].fn = "vkEnumerateDeviceExtensionProperties"
                 /\ calls[i].pd = calls[j].pd
    /\ app.physicalDevice # VK_NULL_HANDLE =>
         HasRequiredExtensions(devices[app.physicalDevice])

\* C16 witness: device 1 lacks the extension, its extension list was
\* queried and it was not probed; device 2 was probed and selected
C16_Witness ==
    /\ Len(devices) = 2
    /\ ~HasRequiredExtensions(devices[1])
    /\ \E i \in 1..Len(calls) :
         /\ calls[i].fn = "vkEnumerateDeviceExtensionProperties"
         /\ calls[i].pd = 1
    /\ \A j \in 1..Len(calls) : calls[j].fn \in ProbeQueries => calls[j].pd = 2
    /\ \E j \in 1..Len(calls) : calls[j].fn \in ProbeQueries
    /\ app.physicalDevice = 2

LogicalDeviceCalls ==
    {"vkCreateSwapchainKHR", "vkGetSwapchainImagesKHR", "vkGetDeviceQueue"}

\* C17: every backend call that takes the logical device (swapchain
\* creation, swapchain image retrieval, queue retrieval) is made with the
\* handle a successful vkCreateDevice produced, after that call.
C17_DeviceCallsAfterCreate ==
    \A j \in 1..Len(calls) :
        calls[j].fn \in LogicalDeviceCalls =>
            /\ calls[j].dev = "VkDevice"
            /\ \E i \in 1..(j - 1) : calls[i].fn = "vkCreateDevice"

\* C18: whenever createSwapChain or createLogicalDevice has run, the
\* indices it resolved for the selected device are complete, the two steps
\* resolved the same pair, the format list handed to
\* chooseSwapSurfaceFormat was nonempty, and no absent index was read.
C18_SelectionEstablishesPreconditions ==
    /\ OutcomeOf("createSwapChain") # "not run" =>
         /\ Len(locals.indices) = 1
         /\ has_value(locals.indices[1].graphicsFamily)
         /\ has_value(locals.indices[1].presentFamily)
         /\ locals.swapChainSupport[1].formats # <<>>
    /\ OutcomeOf("createLogicalDevice") # "not run" =>
         /\ Len(locals.indexes) = 1
         /\ has_value(locals.indexes[1].graphicsFamily)
         /\ has_value(locals.indexes[1].presentFamily)
         /\ locals.indexes = locals.indices
    /\ exception # "bad optional access"

\* C18 witness: the second enumerated device was selected behind one whose
\* indices are incomplete, and both steps have run on it
C18_Witness ==
    /\ Len(devices) = 2
    /\ ~isComplete(findQueueFamilies(devices[1]))
    /\ app.physicalDevice = 2
    /\ OutcomeOf("createSwapChain") = "ok"
    /\ OutcomeOf("createLogicalDevice") = "ok"
    /\ locals.indexes = locals.indices
    /\ locals.indexes[1].graphicsFamily # locals.indexes[1].presentFamily

===========================================================================
